---- MODULE Spec2Model ----
(***************************************************************************)
(* Model of the RFCOMM connection state machine BtSocketConnect            *)
(* (src/src/socket.rs, duplicated in src/src/linux/socket.rs) together     *)
(* with the SDP channel query it embeds and the kernel-side behaviour of   *)
(* the target socket it drives.                                            *)
(*                                                                         *)
(* One Advance action is one complete call of BtSocketConnect::advance().  *)
(*                                                                         *)
(* Specifications, each with its own caller:                               *)
(*   Spec         an arbitrary asynchronous client: it may call advance()  *)
(*                at any time, also after an error, after Done, or without *)
(*                having waited for the readiness the last call asked for  *)
(*   ConnectSpec  the blocking driver BtSocket::connect                    *)
(*   QuerySpec    the SDP channel query driven on its own                  *)
(*   AddrSpec     BtAddr: byte order, to_string, from_str                  *)
(*   ScanSpec     scan_devices                                             *)
(***************************************************************************)
EXTENDS Integers, Sequences, FiniteSets, TLC

VARIABLES
    state,      \* BtSocketConnect.state: "SDPSearch" | "Connect" | "Done"
    pollfd,     \* BtSocketConnect.pollfd, the fd mio::Evented registers
    addr,       \* BtSocketConnect.addr (already in host byte order)
    sockFd,     \* BtSocket.fd of the borrowed target socket
    query,      \* BtSocketConnect.query, the embedded QueryRFCOMMChannel
    sock,       \* kernel state of the target socket
    errno,      \* the thread's errno, read by create_error_from_last
    result,     \* what the last advance() call returned (or that it panicked)
    ops,        \* the calls the last advance() made on the query and on sockets
    target,     \* the addr argument of BtSocket::connect (network byte order)
    endian,     \* target_endian of the build: "little" | "big"
    pc,         \* position of the blocking driver BtSocket::connect
    registered, \* fds registered with the driver's mio::Poll
    drvRet,     \* what BtSocket::connect returned
    qstatus,    \* QuerySpec: what the last QueryRFCOMMChannel::advance() returned
    call,       \* AddrSpec, ScanSpec: the last function applied, input and output
    handles,    \* the live objects that own a file descriptor, oldest first
    closedFds   \* the fds close() was called on, in order

coreVars == <<state, pollfd, addr, sockFd, query, sock, errno, result, ops>>
buildVars == <<target, endian>>
driverVars == <<pc, registered, drvRet>>
fdVars == <<handles, closedFds>>
otherVars == <<qstatus, call, fdVars>>

vars == <<state, pollfd, addr, sockFd, query, sock, errno, result, ops,
          target, endian, pc, registered, drvRet, qstatus, call,
          handles, closedFds>>

---------------------------------------------------------------------------
(* Bounds *)

MaxFd == 4          \* file descriptors are 3..MaxFd
MaxChannel == 2     \* RFCOMM channels the SDP query may discover: 1..MaxChannel
ReqLen == 2         \* bytes of one SDP request PDU
RespLen == 2        \* bytes of one SDP response PDU
MaxRounds == 2      \* SDP response fragments (continuation rounds)
MaxToken == 2       \* continuation states of the SDP responder: 1..MaxToken
MaxCalls == 3       \* BtAddr calls in a row on one input
MaxDevices == 1     \* devices an inquiry finds

Fds == 3..MaxFd
Channels == 1..MaxChannel

(* Program constants *)

AF_BLUETOOTH == 31
ENOTCONN == 107
EINPROGRESS == 115

\* errno values a failing connect() may leave besides EINPROGRESS
ConnectErrnos == {111, 112}          \* ECONNREFUSED, EHOSTDOWN
\* errno values a failing getpeername() may leave besides ENOTCONN
PeerNameErrnos == {105, 9}           \* ENOBUFS, EBADF
\* errno values of syscalls on the SDP control socket
CtlErrnos == {111, 113}              \* ECONNREFUSED, EHOSTUNREACH

\* caller-supplied device addresses (network byte order, as displayed)
CallerAddrs == {<<0, 22, 4, 1, 33, 192>>, <<1, 2, 3, 4, 5, 6>>}

---------------------------------------------------------------------------
(* BtAddr *)

any == <<0, 0, 0, 0, 0, 0>>

Endians == {"little", "big"}

\* std::mem::swap of two bytes of the address
Swap(a, i, j) == [a EXCEPT ![i] = a[j], ![j] = a[i]]

\* convert_host_byteorder that leaves the two middle bytes where they are
convert_host_byteorder_twoSwaps(a) == Swap(Swap(a, 1, 6), 2, 5)

\* little-endian build: swap (0,5), (1,4), (2,3)
convert_host_byteorder(a) == Swap(Swap(Swap(a, 1, 6), 2, 5), 3, 4)

\* big-endian build: the public address is already big-endian
convert_host_byteorder_be(a) == a

\* the convert_host_byteorder the build compiles in
host_byteorder(en, a) ==
    IF en = "little" THEN convert_host_byteorder(a)
                     ELSE convert_host_byteorder_be(a)

---------------------------------------------------------------------------
(* BtAddr as text.  A text is the sequence of its bytes (ASCII codes):     *)
(* 48..57 are '0'..'9', 65..70 'A'..'F', 97..102 'a'..'f', 58 is ':'.      *)

Colon == 58

\* one hex digit of {:02X}: upper case
UpperHex(d) == IF d < 10 THEN 48 + d ELSE 55 + d

\* {:X}: no zero padding
Format02X_noPadding(b) ==
    IF b < 16 THEN <<UpperHex(b)>>
              ELSE <<UpperHex(b \div 16), UpperHex(b % 16)>>

\* {:02X} with lower-case digits
Format02X_lowerCase(b) ==
    <<(IF b \div 16 < 10 THEN 48 ELSE 87) + (b \div 16),
      (IF b % 16 < 10 THEN 48 ELSE 87) + (b % 16)>>

\* {:02X} of a u8: two upper-case hex digits, zero padded
Format02X(b) == <<UpperHex(b \div 16), UpperHex(b % 16)>>

\* BtAddr::to_string
to_string(a) ==
    Format02X(a[1]) \o <<Colon>> \o Format02X(a[2]) \o <<Colon>> \o
    Format02X(a[3]) \o <<Colon>> \o Format02X(a[4]) \o <<Colon>> \o
    Format02X(a[5]) \o <<Colon>> \o Format02X(a[6])

\* (byte as char).to_digit(16): the digit value, -1 for None
to_digit(b) ==
    CASE b \in 48..57  -> b - 48
      [] b \in 65..70  -> b - 55
      [] b \in 97..102 -> b - 87
      [] OTHER         -> -1

\* s.split(':'): the pieces between the colons, empty pieces included
RECURSIVE Split(_)
Split(s) ==
    IF \A k \in 1..Len(s) : s[k] # Colon
    THEN <<s>>
    ELSE LET k == CHOOSE x \in 1..Len(s) :
                      s[x] = Colon /\ \A y \in 1..(x - 1) : s[y] # Colon
         IN  <<SubSeq(s, 1, k - 1)>> \o Split(SubSeq(s, k + 1, Len(s)))

FromStrOk(a) == [tag |-> "Ok", addr |-> a]
FromStrErr == [tag |-> "Err"]
FromStrPanic == [tag |-> "Panic"]

\* the guard at the head of the loop, without the length test
GroupRejected_countOnly(i, split_str) == i = 6

\* `if i == 6 || split_str.len() != 2 { return Err(()) }`
GroupRejected(i, split_str) == i = 6 \/ Len(split_str) # 2

\* the loop of from_str from piece number i on, a the address filled in so far;
\* indexing past the end of a piece or of the address panics
RECURSIVE FromStrLoop(_, _, _)
FromStrLoop(splits, i, a) ==
    IF splits = <<>>
    THEN IF i # 6 THEN FromStrErr ELSE FromStrOk(a)
    ELSE LET split_str == Head(splits) IN
         IF GroupRejected(i, split_str) THEN FromStrErr
         ELSE IF Len(split_str) < 2 \/ i > 5 THEN FromStrPanic
         ELSE LET high == to_digit(split_str[1])
                  low == to_digit(split_str[2])
              IN  IF high < 0 \/ low < 0 THEN FromStrErr
                  ELSE FromStrLoop(Tail(splits), i + 1,
                           [a EXCEPT ![i + 1] = ((high * 16) + low) % 256])

\* BtAddr::from_str
from_str(s) == FromStrLoop(Split(s), 0, any)

\* u8::to_ascii_uppercase, as eq_ignore_ascii_case compares
to_ascii_uppercase(b) == IF b \in 97..122 THEN b - 32 ELSE b

eq_ignore_ascii_case(s, t) ==
    /\ Len(s) = Len(t)
    /\ \A k \in 1..Len(s) : to_ascii_uppercase(s[k]) = to_ascii_uppercase(t[k])

---------------------------------------------------------------------------
(* BtError and BtAsync values *)

\* BtError::Errno(errno as u32, message): errno values are 0..4095, inside the
\* range where the cast from i32 to u32 keeps the value
create_error_from_errno(message, e) ==
    [tag |-> "Err", kind |-> "Errno", code |-> e, msg |-> message]

create_error_from_last(message, lastErrno) ==
    create_error_from_errno(message, lastErrno)

Desc(message) == [tag |-> "Err", kind |-> "Desc", code |-> 0, msg |-> message]

\* BtAsync::WaitFor(self, interest): self registers self.pollfd
WaitFor(fd, interest) == [tag |-> "WaitFor", fd |-> fd, interest |-> interest]
Done == [tag |-> "Done"]
Panic == [tag |-> "Panic"]
NotCalled == [tag |-> "NotCalled"]

---------------------------------------------------------------------------
(* QueryRFCOMMChannel: the SDP channel query (module sdp).                 *)
(* States AwaitConnect, AwaitWritable(sent), AwaitReadable(recvd),         *)
(* Parsing; Done and Failed are its terminal states.                       *)

WaitReadable(fd) == [tag |-> "WaitReadable", fd |-> fd]
WaitWritable(fd) == [tag |-> "WaitWritable", fd |-> fd]
QDone(channel) == [tag |-> "Done", channel |-> channel]
QErr(err) == [tag |-> "Err", err |-> err]
QPanic == [tag |-> "Panic"]

QRunning == [tag |-> "Running"]

\* continuation states the responder may hand out; 0 is the empty one
Tokens == 1..MaxToken

\* payload bytes: 0 stands for the RFCOMM protocol descriptor, c > 0 for a
\* channel number.  The attribute value <<0, c>> may arrive in pieces.
Fragments == {<<>>, <<0>>} \cup {<<c>> : c \in Channels}
                           \cup {<<0, c>> : c \in Channels}

\* what the responder has sent of an attribute value after some fragments
AttributePrefixes == {<<>>, <<0>>} \cup {<<0, c>> : c \in Channels}

\* one response PDU: continuation state and the payload bytes it carries
Responses == [cont : {0} \cup Tokens, data : Fragments]

\* QueryRFCOMMChannel::new(addr): control socket fd, the first request (empty
\* continuation state) built, nothing sent or received.
\* reqs, resps and wire are history: the continuation state of every request
\* sent in full, every response parsed, and the indices of the bytes of the
\* current request that were handed to the control socket.
QueryNew(a, fd) ==
    [state |-> "AwaitConnect", addr |-> a, fd |-> fd,
     sent |-> 0, recvd |-> 0, round |-> 1,
     token |-> 0, payload |-> <<>>,
     reqs |-> <<>>, resps |-> <<>>, wire |-> <<>>]

QOut(q, status, e) == [q |-> q, status |-> status, errno |-> e]

\* a failed query drops its buffers; only the failure is left of it
QFail(q, err, e) ==
    QOut([QueryNew(q.addr, q.fd) EXCEPT !.state = "Failed"], QErr(err), e)

\* AfterWrite that takes every write for a complete one
AfterWrite_ignoresCount(q, n) ==
    [q EXCEPT !.sent = ReqLen,
              !.wire = q.wire \o [i \in 1..n |-> q.sent + i],
              !.state = "AwaitReadable",
              !.reqs = Append(q.reqs, q.token)]

\* AwaitWritable, write(fd, request[sent..]) returned n > 0
AfterWrite(q, n) ==
    [q EXCEPT !.sent = q.sent + n,
              !.wire = q.wire \o [i \in 1..n |-> q.sent + i],
              !.state = IF q.sent + n = ReqLen THEN "AwaitReadable"
                                               ELSE "AwaitWritable",
              !.reqs = IF q.sent + n = ReqLen THEN Append(q.reqs, q.token)
                                              ELSE q.reqs]

\* AwaitReadable, read(fd, buffer[recvd..]) returned n > 0
AfterRead(q, n) ==
    [q EXCEPT !.recvd = q.recvd + n,
              !.state = IF q.recvd + n = RespLen THEN "Parsing"
                                                 ELSE "AwaitReadable"]

\* the channel number in a complete attribute value, 0 if there is none
ChannelOf(payload) ==
    IF Len(payload) = 2 /\ payload[1] = 0 /\ payload[2] \in Channels
    THEN payload[2]
    ELSE 0

\* AfterParse that starts the next round with an empty continuation state
AfterParse_dropsToken(q, resp) ==
    IF resp.cont # 0
    THEN [q EXCEPT !.state = "AwaitWritable", !.sent = 0, !.recvd = 0,
                   !.round = q.round + 1, !.token = 0,
                   !.payload = q.payload \o resp.data,
                   !.resps = Append(q.resps, resp), !.wire = <<>>]
    ELSE [q EXCEPT !.state = "Done",
                   !.payload = q.payload \o resp.data,
                   !.resps = Append(q.resps, resp)]

\* Parsing, the buffered PDU decodes to resp: payload is accumulated; a
\* non-empty continuation state resets the buffer and builds the next request
\* with that continuation state
AfterParse(q, resp) ==
    IF resp.cont # 0
    THEN [q EXCEPT !.state = "AwaitWritable", !.sent = 0, !.recvd = 0,
                   !.round = q.round + 1, !.token = resp.cont,
                   !.payload = q.payload \o resp.data,
                   !.resps = Append(q.resps, resp), !.wire = <<>>]
    ELSE [q EXCEPT !.state = "Done",
                   !.payload = q.payload \o resp.data,
                   !.resps = Append(q.resps, resp)]

\* one step of the state machine inside advance(): the set of what the
\* control socket and the SDP responder can make of it.  A status Running
\* means advance() goes on with the next state.
QueryStep(q, e) ==
    CASE q.state = "AwaitConnect" ->
            \* connect of the control socket still in progress
            {QOut(q, WaitWritable(q.fd), EINPROGRESS)}
            \* connected: start sending the request
            \cup {QOut([q EXCEPT !.state = "AwaitWritable"], QRunning, e)}
            \cup {QFail(q, create_error_from_errno("SDP connect failed", x), x)
                    : x \in CtlErrnos}
      [] q.state = "AwaitWritable" ->
            \* would block
            {QOut(q, WaitWritable(q.fd), 11)}
            \* n bytes written: partial writes stay in AwaitWritable
            \cup {QOut(AfterWrite(q, n), QRunning, e) : n \in 1..(ReqLen - q.sent)}
            \cup {QFail(q, create_error_from_errno("SDP send failed", x), x)
                    : x \in CtlErrnos}
      [] q.state = "AwaitReadable" ->
            \* would block
            {QOut(q, WaitReadable(q.fd), 11)}
            \* n bytes read, PDU still incomplete
            \cup {QOut(AfterRead(q, n), WaitReadable(q.fd), e)
                    : n \in 1..(RespLen - q.recvd - 1)}
            \* full PDU buffered
            \cup {QOut(AfterRead(q, RespLen - q.recvd), QRunning, e)}
            \cup {QFail(q, create_error_from_errno("SDP receive failed", x), x)
                    : x \in CtlErrnos}
      [] q.state = "Parsing" ->
            \* the responder answers in at most MaxRounds fragments, which
            \* together are one attribute value or the beginning of one
            LET parsed == {AfterParse(q, r) :
                             r \in {x \in Responses :
                                      /\ q.round = MaxRounds => x.cont = 0
                                      /\ q.payload \o x.data \in AttributePrefixes}}
            IN  \* non-empty continuation state: next request round
                {QOut(p, QRunning, e) : p \in {x \in parsed : x.state # "Done"}}
                \* empty continuation state: channel number extracted
                \cup {QOut(p, QDone(ChannelOf(p.payload)), e)
                        : p \in {x \in parsed : x.state = "Done"
                                                /\ ChannelOf(x.payload) # 0}}
                \* attribute absent or incomplete
                \cup {QFail(p, Desc("service not offered"), e)
                        : p \in {x \in parsed : x.state = "Done"
                                                /\ ChannelOf(x.payload) = 0}}
                \* header or payload does not decode
                \cup {QFail(q, Desc("malformed SDP response"), e)}
      [] OTHER ->
            \* Done or Failed: the query is single-use
            {QOut(q, QPanic, e)}

\* the query without its history
Forget(q) == [q EXCEPT !.reqs = <<>>, !.resps = <<>>, !.wire = <<>>]

\* advance() runs QueryStep until a step no longer says Running; history
\* says whether the history fields are kept
RECURSIVE QueryClosure(_, _, _)
QueryClosure(frontier, outs, history) ==
    IF frontier = {}
    THEN outs
    ELSE LET all == UNION {QueryStep(c.q, c.errno) : c \in frontier}
             nxt == IF history
                    THEN all
                    ELSE {QOut(Forget(c.q), c.status, c.errno) : c \in all}
         IN  QueryClosure({c \in nxt : c.status.tag = "Running"},
                          outs \cup {c \in nxt : c.status.tag # "Running"},
                          history)

\* QueryRFCOMMChannel::advance() with the history kept: runs the state
\* machine until an operation would block, fails, or the channel number is
\* known.  The result is the set of outcomes the control socket and the SDP
\* responder can produce.
QueryAdvanceH(q, e) == QueryClosure({QOut(q, QRunning, e)}, {}, TRUE)

\* QueryRFCOMMChannel::advance() as BtSocketConnect sees it
QueryAdvance(q, e) == QueryClosure({QOut(Forget(q), QRunning, e)}, {}, FALSE)

---------------------------------------------------------------------------
(* The kernel side of the target socket.  sock is                          *)
(*   "open"        created, no connect issued or the connect was refused   *)
(*                 synchronously                                           *)
(*   "connecting"  a non-blocking connect is in progress                   *)
(*   "connected"   the connect completed                                   *)
(*   "refused"     the asynchronous connect failed, error pending          *)
(*   "hup"         the peer closed the established connection              *)
(* Every syscall yields the set of (return value, errno, socket state)     *)
(* results the kernel can produce; e is errno before the call.             *)

SockStates == {"open", "connecting", "connected", "refused", "hup"}

Sys(ret, e, s) == [ret |-> ret, errno |-> e, sock |-> s]

\* libc::connect(fd, &sockaddr_rc, len)
SysConnect(s, e) ==
    CASE s = "connected"  -> {Sys(-1, 106, s)}                 \* EISCONN
      [] s = "connecting" -> {Sys(-1, 114, s)}                 \* EALREADY
      [] OTHER ->
            {Sys(0, e, "connected")}                           \* blocking socket
            \cup {Sys(-1, EINPROGRESS, "connecting")}          \* O_NONBLOCK set
            \cup {Sys(-1, x, "open") : x \in ConnectErrnos}

\* libc::getpeername(fd, &mut sockaddr_rc, &mut len)
SysGetpeername(s, e) ==
    (IF s = "connected" THEN {Sys(0, e, s)} ELSE {Sys(-1, ENOTCONN, s)})
    \cup {Sys(-1, x, s) : x \in PeerNameErrnos}

\* nix::unistd::read(fd, &mut [0u8; 1])
SysRead(s, e) ==
    CASE s = "connected"  -> {Sys(1, e, s), Sys(-1, 11, s)}    \* data | EAGAIN
      [] s = "connecting" -> {Sys(-1, 11, s)}                  \* EAGAIN
      [] s = "refused"    -> {Sys(-1, x, "open") : x \in ConnectErrnos}
      [] s = "hup"        -> {Sys(0, e, s), Sys(-1, 104, s)}   \* EOF | ECONNRESET
      [] OTHER            -> {Sys(-1, ENOTCONN, s)}

---------------------------------------------------------------------------
(* The calls an advance() makes, as recorded in ops *)

OpQuery(status) == [op |-> "query.advance", status |-> status]

sockaddr_rc(a, channel) ==
    [rc_family |-> AF_BLUETOOTH % 65536, rc_bdaddr |-> a, rc_channel |-> channel]

OpConnect(fd, full_address, c) ==
    [op |-> "connect", fd |-> fd, full_address |-> full_address,
     ret |-> c.ret, errno |-> c.errno]

OpGetpeername(fd, g) ==
    [op |-> "getpeername", fd |-> fd, ret |-> g.ret, errno |-> g.errno]

OpRead(fd, len, r) ==
    [op |-> "read", fd |-> fd, len |-> len, ret |-> r.ret, errno |-> r.errno]

---------------------------------------------------------------------------
(* BtSocketConnect *)

\* connect_addr that converts once more when the sockaddr is filled in
connect_addr_twice(en, a) == host_byteorder(en, host_byteorder(en, a))

\* BtSocket::connect, first line: the address handed to BtSocketConnect::new
connect_addr(en, a) == host_byteorder(en, a)

NoStatus == [tag |-> "NotCalled"]
NoCall == [fn |-> "none"]

\* an object that owns the file descriptor fd and closes it when dropped
Handle(kind, fd) == [kind |-> kind, fd |-> fd]

\* BtSocket::new: the socket's stream field owns the new fd
SocketNew(fd) == <<Handle("BtSocket", fd)>>

\* the owners once socket.connect(addr) built the BtSocketConnect: the
\* BtSocket and the query with its control socket; nothing closed so far
ConnectOwns ==
    /\ handles = SocketNew(sockFd)
                    \o <<Handle("QueryRFCOMMChannel", query.fd)>>
    /\ closedFds = <<>>

\* the variables of the other specifications, at rest
DriverIdle == pc = "none" /\ registered = {} /\ drvRet = NotCalled
OthersIdle == qstatus = NoStatus /\ call = NoCall /\ ConnectOwns

\* BtSocketConnect::new(socket, addr) for the call connect(target)
ConnectNew ==
    /\ target \in CallerAddrs
    /\ endian \in Endians
    /\ state = "SDPSearch"
    /\ pollfd = 0
    /\ sockFd \in Fds
    /\ addr = connect_addr(endian, target)
    /\ \E cfd \in Fds \ {sockFd} :
          query = QueryNew(connect_addr(endian, target), cfd)
    /\ sock = "open"
    /\ errno = 0
    /\ result = NotCalled
    /\ ops = <<>>

\* BtSocket::connect / BtSocketConnect::new: the state after construction
Init == ConnectNew /\ DriverIdle /\ OthersIdle

\* ForwardWait that never stores the fd the query named: pollfd stays as
\* new() left it
ForwardWait_stalePollfd(status) ==
    [pollfd |-> 0,
     result |-> WaitFor(0,
                        IF status.tag = "WaitReadable" THEN "readable"
                                                       ELSE "writable")]

\* ForwardWait with the two interests exchanged
ForwardWait_swapsInterest(status) ==
    [pollfd |-> status.fd,
     result |-> WaitFor(status.fd,
                        IF status.tag = "WaitReadable" THEN "writable"
                                                       ELSE "readable")]

\* SDPSearch, query asked for another round: pollfd and the directive
ForwardWait(status) ==
    [pollfd |-> status.fd,
     result |-> WaitFor(status.fd,
                        IF status.tag = "WaitReadable" THEN "readable"
                                                       ELSE "writable")]

\* AfterConnect that treats a connect() returning 0 as the end of the sequence
AfterConnect_doneOnSuccess(c, fd) ==
    IF c.ret < 0
    THEN [state |-> "SDPSearch",
          result |-> create_error_from_last(
                         "Failed to connect() to target device", c.errno)]
    ELSE [state |-> "Done", result |-> Done]

\* AfterConnect that sets the state before it looks at the return value
AfterConnect_stateBeforeCheck(c, fd) ==
    IF c.ret < 0
    THEN [state |-> "Connect",
          result |-> create_error_from_last(
                         "Failed to connect() to target device", c.errno)]
    ELSE [state |-> "Connect", result |-> WaitFor(fd, "writable")]

\* SDPSearch, after libc::connect returned c on fd: new state and return value
AfterConnect(c, fd) ==
    IF c.ret < 0
    THEN [state |-> "SDPSearch",
          result |-> create_error_from_last(
                         "Failed to connect() to target device", c.errno)]
    ELSE [state |-> "Connect", result |-> WaitFor(fd, "writable")]

\* IsNotConnected that sends every getpeername failure to the probe
IsNotConnected_anyError(e) == TRUE

\* Connect, getpeername failed: is the errno the one that asks for the probe
IsNotConnected(e) == e = ENOTCONN

\* AfterProbe that reports the errno getpeername left
AfterProbe_peerNameErrno(r) ==
    IF r.ret >= 0
    THEN Panic
    ELSE create_error_from_last("Failed to connect() to target device", ENOTCONN)

\* Connect, after the probe read returned r: unwrap_err, then the last errno
AfterProbe(r) ==
    IF r.ret >= 0
    THEN Panic
    ELSE create_error_from_last("Failed to connect() to target device", r.errno)

\* AfterPeerName that gives up the state when getpeername fails
AfterPeerName_doneOnError(g) ==
    IF g.ret < 0
    THEN [state |-> "Done",
          result |-> create_error_from_last("getpeername() failed", g.errno)]
    ELSE [state |-> "Done", result |-> Done]

\* AfterPeerName that returns Done without recording it in the state
AfterPeerName_keepsState(g) ==
    IF g.ret < 0
    THEN [state |-> "Connect",
          result |-> create_error_from_last("getpeername() failed", g.errno)]
    ELSE [state |-> "Connect", result |-> Done]

\* AfterPeerName that falls back to the SDP search when getpeername fails
AfterPeerName_restarts(g) ==
    IF g.ret < 0
    THEN [state |-> "SDPSearch",
          result |-> create_error_from_last("getpeername() failed", g.errno)]
    ELSE [state |-> "Done", result |-> Done]

\* AfterPeerName that does not look at the return value of getpeername
AfterPeerName_ignoresFailure(g) == [state |-> "Done", result |-> Done]

\* Connect, after getpeername returned g without needing a probe
AfterPeerName(g) ==
    IF g.ret < 0
    THEN [state |-> "Connect",
          result |-> create_error_from_last("getpeername() failed", g.errno)]
    ELSE [state |-> "Done", result |-> Done]

\* advance() in state SDPSearch
AdvanceSDPSearch ==
    /\ state = "SDPSearch"
    /\ \E o \in QueryAdvance(query, errno) :
          /\ query' = o.q
          /\ CASE o.status.tag \in {"WaitReadable", "WaitWritable"} ->
                    /\ pollfd' = ForwardWait(o.status).pollfd
                    /\ result' = ForwardWait(o.status).result
                    /\ ops' = <<OpQuery(o.status)>>
                    /\ errno' = o.errno
                    /\ UNCHANGED <<state, sock>>
               [] o.status.tag = "Err" ->
                    /\ result' = o.status.err
                    /\ ops' = <<OpQuery(o.status)>>
                    /\ errno' = o.errno
                    /\ UNCHANGED <<state, pollfd, sock>>
               [] o.status.tag = "Panic" ->
                    /\ result' = Panic
                    /\ ops' = <<OpQuery(o.status)>>
                    /\ UNCHANGED <<state, pollfd, sock, errno>>
               [] o.status.tag = "Done" ->
                    /\ pollfd' = sockFd
                    /\ \E c \in SysConnect(sock, o.errno) :
                          /\ sock' = c.sock
                          /\ errno' = c.errno
                          /\ state' = AfterConnect(c, sockFd).state
                          /\ result' = AfterConnect(c, sockFd).result
                          /\ ops' = <<OpQuery(o.status),
                                      OpConnect(sockFd,
                                          sockaddr_rc(addr, o.status.channel), c)>>
    /\ UNCHANGED <<addr, sockFd>>

\* advance() in state Connect
AdvanceConnect ==
    /\ state = "Connect"
    /\ \E g \in SysGetpeername(sock, errno) :
          IF g.ret < 0 /\ IsNotConnected(g.errno)
          THEN \E r \in SysRead(g.sock, g.errno) :
                  /\ sock' = r.sock
                  /\ errno' = r.errno
                  /\ result' = AfterProbe(r)
                  /\ ops' = <<OpGetpeername(pollfd, g), OpRead(pollfd, 1, r)>>
                  /\ UNCHANGED state
          ELSE /\ sock' = g.sock
               /\ errno' = g.errno
               /\ state' = AfterPeerName(g).state
               /\ result' = AfterPeerName(g).result
               /\ ops' = <<OpGetpeername(pollfd, g)>>
    /\ UNCHANGED <<pollfd, addr, sockFd, query>>

\* AdvanceDone that repeats the peer-name query instead of panicking
AdvanceDone_repeats ==
    /\ state = "Done"
    /\ \E g \in SysGetpeername(sock, errno) :
          /\ errno' = g.errno
          /\ result' = IF g.ret < 0
                       THEN create_error_from_last("getpeername() failed", g.errno)
                       ELSE Done
          /\ ops' = <<OpGetpeername(pollfd, g)>>
    /\ UNCHANGED <<state, pollfd, addr, sockFd, query, sock>>

\* advance() in state Done: panic!
AdvanceDone ==
    /\ state = "Done"
    /\ result' = Panic
    /\ ops' = <<>>
    /\ UNCHANGED <<state, pollfd, addr, sockFd, query, sock, errno>>

\* the kernel finishes a non-blocking connect of the target socket
ConnectCompletes ==
    /\ sock = "connecting"
    /\ sock' \in {"connected", "refused"}
    /\ UNCHANGED <<state, pollfd, addr, sockFd, query, errno, result, ops>>

\* the peer closes the established connection
PeerHangup ==
    /\ sock = "connected"
    /\ sock' = "hup"
    /\ UNCHANGED <<state, pollfd, addr, sockFd, query, errno, result, ops>>

\* everything outside BtSocketConnect and the target socket
Outside == <<buildVars, driverVars, otherVars>>

\* the asynchronous client calls advance()
ClientSDPSearch == AdvanceSDPSearch /\ UNCHANGED Outside
ClientConnect == AdvanceConnect /\ UNCHANGED Outside
ClientDone == AdvanceDone /\ UNCHANGED Outside

\* the kernel acts on the target socket
KernelConnectCompletes == ConnectCompletes /\ UNCHANGED Outside
KernelPeerHangup == PeerHangup /\ UNCHANGED Outside

Next ==
    \/ ClientSDPSearch
    \/ ClientConnect
    \/ ClientDone
    \/ KernelConnectCompletes
    \/ KernelPeerHangup

Spec == Init /\ [][Next]_vars

---------------------------------------------------------------------------
(* The blocking BtSocket::connect: a private mio::Poll loop around         *)
(* advance().  pc is the place the call has reached, registered the set of *)
(* fds registered with the Poll, drvRet what connect() returned.           *)

Ok == [tag |-> "Ok"]

\* the match that takes a wait directive for the end of the sequence
DriverAfter_okOnWait(r) ==
    CASE r.tag = "WaitFor" -> [pc |-> "returned", drvRet |-> Ok]
      [] r.tag = "Done"    -> [pc |-> "returned", drvRet |-> Ok]
      [] r.tag = "Err"     -> [pc |-> "returned", drvRet |-> r]
      [] OTHER             -> [pc |-> "panicked", drvRet |-> NotCalled]

\* `connect.advance()?` that goes round the loop again on an error
DriverAfter_retriesOnErr(r) ==
    CASE r.tag = "WaitFor" -> [pc |-> "register", drvRet |-> NotCalled]
      [] r.tag = "Done"    -> [pc |-> "returned", drvRet |-> Ok]
      [] r.tag = "Err"     -> [pc |-> "advance", drvRet |-> NotCalled]
      [] OTHER             -> [pc |-> "panicked", drvRet |-> NotCalled]

\* `match connect.advance()? { ... }`: where the driver goes on the value r
\* that advance() returned, and what connect() returns if it returns
DriverAfter(r) ==
    CASE r.tag = "WaitFor" -> [pc |-> "register", drvRet |-> NotCalled]
      [] r.tag = "Done"    -> [pc |-> "returned", drvRet |-> Ok]
      [] r.tag = "Err"     -> [pc |-> "returned", drvRet |-> r]
      [] OTHER             -> [pc |-> "panicked", drvRet |-> NotCalled]

\* the registered fd is ready for the requested interest: the control socket
\* whenever the SDP responder makes it so, the target socket once the
\* asynchronous connect has come to an end
Ready(fd) == fd = sockFd => sock # "connecting"

\* BtSocket::connect up to the first advance()
ConnectInit ==
    /\ ConnectNew
    /\ pc = "advance" /\ registered = {} /\ drvRet = NotCalled
    /\ OthersIdle

\* connect.advance()? in state SDPSearch
DriverSDPSearch ==
    /\ pc = "advance"
    /\ AdvanceSDPSearch
    /\ pc' = DriverAfter(result').pc
    /\ drvRet' = DriverAfter(result').drvRet
    /\ UNCHANGED <<registered, buildVars, otherVars>>

\* connect.advance()? in state Connect
DriverConnect ==
    /\ pc = "advance"
    /\ AdvanceConnect
    /\ pc' = DriverAfter(result').pc
    /\ drvRet' = DriverAfter(result').drvRet
    /\ UNCHANGED <<registered, buildVars, otherVars>>

\* evtloop.register(evented, token, interest, oneshot).unwrap(): registering
\* an fd that is still registered fails, and unwrap() panics
DriverRegister ==
    /\ pc = "register"
    /\ IF pollfd \in registered
       THEN pc' = "panicked" /\ UNCHANGED registered
       ELSE pc' = "poll" /\ registered' = registered \cup {pollfd}
    /\ UNCHANGED <<coreVars, drvRet, buildVars, otherVars>>

\* the event loop body that leaves the fd registered
AfterEvent_staysRegistered(reg, fd) == reg

\* `event_received = true; evtloop.deregister(evented).unwrap()`
AfterEvent(reg, fd) == reg \ {fd}

\* evtloop.poll(&mut events, None) blocks until the registered fd is ready
\* and returns its event, which carries the token: the only registration of
\* this Poll is the one made just before
DriverPoll ==
    /\ pc = "poll"
    /\ \E fd \in registered : Ready(fd)
    /\ registered' = AfterEvent(registered, pollfd)
    /\ pc' = "advance"
    /\ UNCHANGED <<coreVars, drvRet, buildVars, otherVars>>

ConnectNext ==
    \/ DriverSDPSearch
    \/ DriverConnect
    \/ DriverRegister
    \/ DriverPoll
    \/ KernelConnectCompletes
    \/ KernelPeerHangup

ConnectSpec == ConnectInit /\ [][ConnectNext]_vars

\* an advance() in which the SDP query gets on
QueryProgress == DriverSDPSearch /\ query' # query

\* BtSocket::connect as a running call: the thread takes its next step, the
\* kernel finishes a connect it has begun, the event a poll() waits for is
\* delivered, and the SDP query does not answer "would block" for ever
ConnectLive ==
    /\ ConnectSpec
    /\ WF_vars(DriverSDPSearch)
    /\ WF_vars(DriverConnect)
    /\ WF_vars(DriverRegister)
    /\ WF_vars(DriverPoll)
    /\ WF_vars(KernelConnectCompletes)
    /\ SF_vars(QueryProgress)

---------------------------------------------------------------------------
(* BtAddr used on its own: the caller holds an address or a text and calls *)
(* convert_host_byteorder, to_string and from_str on what it holds, up to  *)
(* MaxCalls calls in a row.  call is the last call: its argument, its      *)
(* return value, and the call before it.                                   *)

\* "00:00:00:00:00:00"
TextAny ==
    <<48, 48, 58, 48, 48, 58, 48, 48, 58, 48, 48, 58, 48, 48, 58, 48, 48>>

\* "01:02:03:04:05:06"
Text123456 ==
    <<48, 49, 58, 48, 50, 58, 48, 51, 58, 48, 52, 58, 48, 53, 58, 48, 54>>

\* "00:ff:ee:ee:dd:12"
TextLowerCase ==
    <<48, 48, 58, 102, 102, 58, 101, 101, 58, 101, 101, 58, 100, 100, 58,
      49, 50>>

\* the texts tests::btaddr_from_string expects to fail:
\* "addr : String", "00:00:00:00:00", "00:00:00:00:00:00:00",
\* "-00:00:00:00:00:00", "0G:00:00:00:00:00"
FailStrings ==
    {<<97, 100, 100, 114, 32, 58, 32, 83, 116, 114, 105, 110, 103>>,
     <<48, 48, 58, 48, 48, 58, 48, 48, 58, 48, 48, 58, 48, 48>>,
     <<48, 48, 58, 48, 48, 58, 48, 48, 58, 48, 48, 58, 48, 48, 58, 48, 48, 58,
       48, 48>>,
     <<45, 48, 48, 58, 48, 48, 58, 48, 48, 58, 48, 48, 58, 48, 48, 58, 48, 48>>,
     <<48, 71, 58, 48, 48, 58, 48, 48, 58, 48, 48, 58, 48, 48, 58, 48, 48>>}

\* addresses the caller may hold: the ones of the tests, and every byte
\* value in every position
AddrInputs ==
    {any, <<1, 2, 3, 4, 5, 6>>, <<0, 22, 4, 1, 33, 192>>,
     <<255, 255, 255, 255, 255, 255>>}
    \cup {[<<0, 22, 4, 1, 33, 192>> EXCEPT ![i] = b] : i \in 1..6, b \in 0..255}

\* pieces of two hex digits: "00", "fF", "a9"
HexGroups == {<<48, 48>>, <<102, 70>>, <<97, 57>>}

\* pieces that are not two hex digits:
\* "", "0", "000", "0G", "g0", "-0", "+1", " 0", "0 ", "0x", "-00", "+00"
OtherGroups ==
    {<<>>, <<48>>, <<48, 48, 48>>, <<48, 71>>, <<103, 48>>, <<45, 48>>,
     <<43, 49>>, <<32, 48>>, <<48, 32>>, <<48, 120>>, <<45, 48, 48>>,
     <<43, 48, 48>>}

\* the pieces joined with colons
RECURSIVE Join(_)
Join(groups) ==
    IF groups = <<>> THEN <<>>
    ELSE IF Len(groups) = 1 THEN groups[1]
    ELSE groups[1] \o <<Colon>> \o Join(Tail(groups))

\* texts the caller may hold: texts of six hex pieces in either case, texts
\* with one piece that is not two hex digits, texts of any other number of
\* pieces, texts with any byte value in a digit position, and the texts of
\* the tests
TextInputs ==
    {Join(g) : g \in [1..6 -> HexGroups]}
    \cup {Join([[k \in 1..6 |-> <<48, 48>>] EXCEPT ![i] = g])
            : i \in 1..6, g \in OtherGroups}
    \cup {Join([k \in 1..n |-> <<49, 65>>]) : n \in 0..8}
    \cup {Join([k \in 1..n |-> IF k = n THEN <<>> ELSE <<49, 65>>]) : n \in 6..7}
    \cup {Join([[k \in 1..6 |-> <<48, 48>>] EXCEPT ![i] = <<b, 52>>])
            : i \in {1, 6}, b \in 0..255}
    \cup {Join([[k \in 1..6 |-> <<48, 48>>] EXCEPT ![i] = <<51, b>>])
            : i \in {1, 6}, b \in 0..255}
    \cup FailStrings \cup {TextAny, Text123456, TextLowerCase}

HoldsAddr(c) ==
    \/ c.fn \in {"addr", "convert_host_byteorder"}
    \/ c.fn = "from_str" /\ c.out.tag = "Ok"

HoldsText(c) == c.fn \in {"text", "to_string"}

\* the address the caller holds after call c (a Result is unwrapped)
AddrOf(c) == IF c.fn = "from_str" THEN c.out.addr ELSE c.out

Called(fn, arg, out) ==
    [fn |-> fn, arg |-> arg, out |-> out, prev |-> call, n |-> call.n + 1]

\* all else at rest; the caller holds an address or a text
AddrInit ==
    /\ ConnectNew /\ DriverIdle /\ qstatus = NoStatus /\ ConnectOwns
    /\ target = <<1, 2, 3, 4, 5, 6>> /\ sockFd = 3 /\ query.fd = 4
    /\ call \in {[fn |-> "addr", out |-> a, n |-> 0] : a \in AddrInputs}
               \cup {[fn |-> "text", out |-> t, n |-> 0] : t \in TextInputs}

\* addr.convert_host_byteorder()
CallConvert ==
    /\ HoldsAddr(call) /\ call.n < MaxCalls
    /\ call' = Called("convert_host_byteorder", AddrOf(call),
                      host_byteorder(endian, AddrOf(call)))
    /\ UNCHANGED <<coreVars, buildVars, driverVars, qstatus, fdVars>>

\* addr.to_string()
CallToString ==
    /\ HoldsAddr(call) /\ call.n < MaxCalls
    /\ call' = Called("to_string", AddrOf(call), to_string(AddrOf(call)))
    /\ UNCHANGED <<coreVars, buildVars, driverVars, qstatus, fdVars>>

\* BtAddr::from_str(text)
CallFromStr ==
    /\ HoldsText(call) /\ call.n < MaxCalls
    /\ call' = Called("from_str", call.out, from_str(call.out))
    /\ UNCHANGED <<coreVars, buildVars, driverVars, qstatus, fdVars>>

AddrNext ==
    \/ CallConvert
    \/ CallToString
    \/ CallFromStr

AddrSpec == AddrInit /\ [][AddrNext]_vars

---------------------------------------------------------------------------
(* scan_devices (linux/hci.rs).  A u64 is written as four 16-bit limbs,    *)
(* most significant first, since it does not fit the integers of the       *)
(* checker; a Duration is its whole seconds (u64) and its nanoseconds.     *)

Durations == [secs : [1..4 -> {0, 1, 65535}] \cup [1..4 -> {0, 41943, 41944}],
              nanos : {0, 640000000, 999999999}]

\* x > y for two u64
RECURSIVE GreaterFrom(_, _, _)
GreaterFrom(x, y, k) ==
    IF k > 4 THEN FALSE
    ELSE IF x[k] # y[k] THEN x[k] > y[k]
    ELSE GreaterFrom(x, y, k + 1)

GreaterU64(x, y) == GreaterFrom(x, y, 1)

\* u64::from(u32::max_value())
max_secs == <<0, 0, 65535, 65535>>

\* the largest c_int
c_int_max == 2147483647

\* `timeout_secs > max_secs`
TimeoutTooBig(timeout_secs) == GreaterU64(timeout_secs, max_secs)

\* ((secs + nanos / 1e9) / 1.28).round().min(c_int::max_value()).max(1.) for
\* secs = hi * 65536 + lo < 2^32, in exact arithmetic:
\* round(x / 1.28) = floor((secs * 25 + floor((nanos + 640000000) / 40000000)) / 32)
InquiryLength(hi, lo, nanos) ==
    LET rest == (lo * 25 + (nanos + 640000000) \div 40000000) \div 32
    IN  IF hi > 41943 \/ rest >= c_int_max - hi * 51200
        THEN c_int_max
        ELSE IF hi * 51200 + rest < 1 THEN 1 ELSE hi * 51200 + rest

\* errno values of the HCI calls: ENODEV, EBUSY
HciErrnos == {19, 16}

\* addresses as the inquiry reports them (InquiryInfo.bdaddr)
InquiryAddrs == {<<192, 33, 1, 4, 22, 0>>, <<6, 5, 4, 3, 2, 1>>}

\* what the adapter and the devices around do during one scan_devices:
\* the return values of hci_get_route, hci_open_dev, hci_inquiry,
\* hci_read_remote_name and close, the errno of a failing call, and the
\* addresses the inquiry reports
ScanEnvs ==
    [route : {-1, 0}, open : {-1, 3}, inquiry : {-1} \cup 0..MaxDevices,
     bdaddr : [1..MaxDevices -> InquiryAddrs], name : {-1, 0},
     close : {-1, 0}, errno : HciErrnos]

OpHci(op, arg, ret) == [op |-> op, arg |-> arg, ret |-> ret]

ScanOk(devices) == [tag |-> "Ok", devices |-> devices]

Scanned(out, log) == [out |-> out, ops |-> log]

\* a BtDevice that carries the inquiry's bytes as they came
BtDevice_rawAddr(env, en, k) ==
    [name |-> IF env.name < 0 THEN "[unknown]" ELSE "name",
     addr |-> env.bdaddr[k]]

\* BtDevice { name, addr } of the k-th inquiry result
BtDevice(env, en, k) ==
    [name |-> IF env.name < 0 THEN "[unknown]" ELSE "name",
     addr |-> host_byteorder(en, env.bdaddr[k])]

\* scan_devices(timeout) in the surroundings env on a build of endianness en:
\* its return value and the calls it made, in order
scan_devices(timeout, env, en) ==
    LET route == OpHci("hci_get_route", 0, env.route)
        open == OpHci("hci_open_dev", env.route, env.open)
        drop == OpHci("drop UnixStream", env.open, 0)
    IN
    IF env.route < 0
    THEN Scanned(create_error_from_last(
                    "hci_get_route(): No local bluetooth adapter found",
                    env.errno),
                 <<route>>)
    ELSE IF env.open < 0
    THEN Scanned(create_error_from_last(
                    "hci_open_dev(): Opening local bluetooth adapter failed",
                    env.errno),
                 <<route, open>>)
    ELSE IF TimeoutTooBig(timeout.secs)
    THEN Scanned(Desc("Timeout value too big"), <<route, open, drop>>)
    ELSE
    LET inquiry == OpHci("hci_inquiry",
                         InquiryLength(timeout.secs[3], timeout.secs[4],
                                       timeout.nanos),
                         env.inquiry)
    IN
    IF env.inquiry < 0
    THEN Scanned(create_error_from_last(
                    "hci_inquiry(): Scanning remote bluetooth devices failed",
                    env.errno),
                 <<route, open, inquiry, drop>>)
    ELSE
    LET names == [k \in 1..env.inquiry |->
                    OpHci("hci_read_remote_name", env.bdaddr[k], env.name)]
        devices == [k \in 1..env.inquiry |-> BtDevice(env, en, k)]
        closed == OpHci("close", env.open, env.close)
    IN
    IF env.close < 0
    THEN Scanned(create_error_from_last("close()", env.errno),
                 <<route, open, inquiry>> \o names \o <<closed>>)
    ELSE Scanned(ScanOk(devices),
                 <<route, open, inquiry>> \o names \o <<closed>>)

\* all else at rest; the caller holds a Duration
ScanInit ==
    /\ ConnectNew /\ DriverIdle /\ qstatus = NoStatus /\ ConnectOwns
    /\ target = <<1, 2, 3, 4, 5, 6>> /\ sockFd = 3 /\ query.fd = 4
    /\ call \in {[fn |-> "duration", out |-> d, n |-> 0] : d \in Durations}

\* scan_devices(timeout)
ScanDevices ==
    /\ call.fn = "duration"
    /\ \E env \in ScanEnvs :
          LET r == scan_devices(call.out, env, endian)
          IN  call' = [fn |-> "scan_devices", arg |-> call.out,
                       out |-> r.out, ops |-> r.ops, n |-> 1]
    /\ UNCHANGED <<coreVars, buildVars, driverVars, qstatus, fdVars>>

ScanNext == ScanDevices

ScanSpec == ScanInit /\ [][ScanNext]_vars

---------------------------------------------------------------------------
(* The SDP query driven on its own: a caller that calls advance() again    *)
(* whenever the control socket is ready.  qstatus is what the last         *)
(* advance() returned.                                                     *)

\* the query of one BtSocketConnect that is never advanced itself
QueryInit ==
    Init /\ target = <<1, 2, 3, 4, 5, 6>> /\ endian = "little"

\* query.advance()
QueryCall ==
    /\ \E o \in QueryAdvanceH(query, errno) :
          /\ query' = o.q
          /\ errno' = o.errno
          /\ qstatus' = o.status
    /\ UNCHANGED <<state, pollfd, addr, sockFd, sock, result, ops>>
    /\ UNCHANGED <<buildVars, driverVars, call, fdVars>>

QueryNext == QueryCall

QuerySpec == QueryInit /\ [][QueryNext]_vars

---------------------------------------------------------------------------
(* Ownership of file descriptors.  handles lists the live objects that     *)
(* close an fd when they are dropped; closedFds lists the close() calls.   *)

Owns(kind) == \E i \in 1..Len(handles) : handles[i].kind = kind

Remove(hs, i) == SubSeq(hs, 1, i - 1) \o SubSeq(hs, i + 1, Len(hs))

\* drop of the QueryRFCOMMChannel: it closes its control socket
QueryDrop(q) == <<q.fd>>

\* a drop of BtSocketConnect that closes the target socket as well
DropConnect_closesTarget(q, sfd) == <<q.fd, sfd>>

\* the fds closed by the drop glue of BtSocketConnect { addr, pollfd, query,
\* socket, state }: query is the only field that owns anything; pollfd is a
\* plain i32 and socket a &mut borrow
DropConnect(q, sfd) == QueryDrop(q)

\* the caller drops the BtSocketConnect
DropBtSocketConnect ==
    /\ Owns("QueryRFCOMMChannel")
    /\ handles' = SelectSeq(handles,
                            LAMBDA h : h.kind # "QueryRFCOMMChannel")
    /\ closedFds' = closedFds \o DropConnect(query, sockFd)
    /\ UNCHANGED <<coreVars, buildVars, driverVars, qstatus, call>>

\* advance() needs the BtSocketConnect
LiveSDPSearch == Owns("QueryRFCOMMChannel") /\ ClientSDPSearch
LiveConnect == Owns("QueryRFCOMMChannel") /\ ClientConnect
LiveDone == Owns("QueryRFCOMMChannel") /\ ClientDone

DropInit == Init /\ target = <<1, 2, 3, 4, 5, 6>> /\ endian = "little"

DropNext ==
    \/ LiveSDPSearch
    \/ LiveConnect
    \/ LiveDone
    \/ KernelConnectCompletes
    \/ KernelPeerHangup
    \/ DropBtSocketConnect

DropSpec == DropInit /\ [][DropNext]_vars

(* The BtSocket and the streams taken from it, once the BtSocketConnect   *)
(* that borrowed the socket is gone.                                       *)

MaxStreams == 3

StreamKinds == {"UnixStream", "StdUnixStream"}

\* the streams taken from the socket so far, alive or dropped: every object
\* but the BtSocket and the query
NStreams == Len(handles) + Len(closedFds) - 2

\* UnixStream::from_raw_fd(self.fd)
get_stream(fd) == Handle("UnixStream", fd)

\* StdUnixStream::from_raw_fd(self.fd)
get_stream_std(fd) == Handle("StdUnixStream", fd)

\* socket.get_stream()
GetStream ==
    /\ ~Owns("QueryRFCOMMChannel") /\ Owns("BtSocket")
    /\ NStreams < MaxStreams
    /\ handles' = Append(handles, get_stream(sockFd))
    /\ UNCHANGED <<closedFds, coreVars, buildVars, driverVars, qstatus, call>>

\* socket.get_stream_std()
GetStreamStd ==
    /\ ~Owns("QueryRFCOMMChannel") /\ Owns("BtSocket")
    /\ NStreams < MaxStreams
    /\ handles' = Append(handles, get_stream_std(sockFd))
    /\ UNCHANGED <<closedFds, coreVars, buildVars, driverVars, qstatus, call>>

\* a stream obtained from the socket goes out of scope: its fd is closed
DropStream ==
    /\ \E i \in 1..Len(handles) :
          /\ handles[i].kind \in StreamKinds
          /\ handles' = Remove(handles, i)
          /\ closedFds' = Append(closedFds, handles[i].fd)
    /\ UNCHANGED <<coreVars, buildVars, driverVars, qstatus, call>>

\* the BtSocket goes out of scope: its stream field closes the fd
DropSocket ==
    /\ ~Owns("QueryRFCOMMChannel")
    /\ \E i \in 1..Len(handles) :
          /\ handles[i].kind = "BtSocket"
          /\ handles' = Remove(handles, i)
          /\ closedFds' = Append(closedFds, handles[i].fd)
    /\ UNCHANGED <<coreVars, buildVars, driverVars, qstatus, call>>

FdInit == Init /\ target = <<1, 2, 3, 4, 5, 6>> /\ endian = "little"

FdNext ==
    \/ DropBtSocketConnect
    \/ GetStream
    \/ GetStreamStd
    \/ DropStream
    \/ DropSocket

FdSpec == FdInit /\ [][FdNext]_vars

---------------------------------------------------------------------------
(* A scan followed by a connect to one of the devices found, as in         *)
(* examples/example.rs.                                                    *)

\* the caller holds a short timeout, on either build
RoundInit ==
    /\ ConnectNew /\ DriverIdle /\ qstatus = NoStatus /\ ConnectOwns
    /\ target = <<1, 2, 3, 4, 5, 6>> /\ sockFd = 3 /\ query.fd = 4
    /\ call \in {[fn |-> "duration", out |-> [secs |-> <<0, 0, 0, s>>,
                                               nanos |-> 0],
                  n |-> 0] : s \in {0, 1}}

\* socket.connect(devices[k].addr): a fresh BtSocketConnect for the address
\* scan_devices returned; call keeps that address and the bytes the inquiry
\* had reported for the device
ConnectDevice ==
    /\ call.fn = "scan_devices" /\ call.out.tag = "Ok"
    /\ \E k \in DOMAIN call.out.devices :
          LET device == call.out.devices[k]
              raw == call.ops[3 + k].arg
          IN  /\ target' = device.addr
              /\ addr' = connect_addr(endian, device.addr)
              /\ query' = QueryNew(connect_addr(endian, device.addr),
                                   query.fd)
              /\ call' = [fn |-> "connect", arg |-> device.addr,
                          raw |-> raw, n |-> 2]
    /\ state' = "SDPSearch"
    /\ pollfd' = 0
    /\ sock' = "open"
    /\ errno' = 0
    /\ result' = NotCalled
    /\ ops' = <<>>
    /\ UNCHANGED <<sockFd, endian, driverVars, qstatus, fdVars>>

\* advance() on the BtSocketConnect for the device
RoundSDPSearch == call.fn = "connect" /\ ClientSDPSearch
RoundConnect == call.fn = "connect" /\ ClientConnect
RoundDone == call.fn = "connect" /\ ClientDone
RoundConnectCompletes == call.fn = "connect" /\ KernelConnectCompletes
RoundPeerHangup == call.fn = "connect" /\ KernelPeerHangup

RoundNext ==
    \/ ScanDevices
    \/ ConnectDevice
    \/ RoundSDPSearch
    \/ RoundConnect
    \/ RoundDone
    \/ RoundConnectCompletes
    \/ RoundPeerHangup

RoundSpec == RoundInit /\ [][RoundNext]_vars

TypeOK ==
    /\ state \in {"SDPSearch", "Connect", "Done"}
    /\ pollfd \in {0} \cup Fds
    /\ sockFd \in Fds
    /\ sock \in SockStates
    /\ result.tag \in {"NotCalled", "WaitFor", "Done", "Err", "Panic"}
    /\ Len(ops) <= 2

---------------------------------------------------------------------------
(* Properties of BtSocketConnect::advance() *)

\* one call of advance(), in whichever state
Advance == AdvanceSDPSearch \/ AdvanceConnect \/ AdvanceDone

CalledQuery == Len(ops) >= 1 /\ ops[1].op = "query.advance"
CalledConnect == Len(ops) = 2 /\ ops[2].op = "connect"
CalledGetpeername == Len(ops) >= 1 /\ ops[1].op = "getpeername"
CalledRead == Len(ops) = 2 /\ ops[2].op = "read"

IsErrno(r, code, message) ==
    r.tag = "Err" /\ r.kind = "Errno" /\ r.code = code /\ r.msg = message

IsWaitFor(r, fd, interest) ==
    r.tag = "WaitFor" /\ r.fd = fd /\ r.interest = interest

\* the calls in a log that did something: every socket syscall, and every
\* query.advance() that the query did not itself reject
Performed(log) ==
    {i \in 1..Len(log) :
        log[i].op # "query.advance" \/ log[i].status.tag # "Panic"}

\* C1: once an advance() has returned an error or Done, the next advance()
\* is rejected: it panics, and no step of the query, connect(), getpeername()
\* or read() is performed by it.
C1_RejectedAfterTerminal ==
    [][(result.tag \in {"Err", "Done"} /\ Advance)
          => (result'.tag = "Panic" /\ Performed(ops') = {})]_vars

\* C2 (as stated): in SDPSearch, when the query yields Done(channel) and
\* connect() on the target socket returns success at once, the state becomes
\* Done and the call returns Done.
C2_ImmediateSuccessIsDone ==
    (CalledConnect /\ ops[2].ret >= 0) => (state = "Done" /\ result = Done)

\* C2 (amended): in SDPSearch, when the query yields Done(channel) and
\* connect() on the target socket returns success at once, the state becomes
\* Connect and the call returns a wait for writable on the target socket's fd.
C2_ImmediateSuccessGoesToConnect ==
    (CalledConnect /\ ops[2].ret >= 0)
        => /\ state = "Connect"
           /\ pollfd = sockFd
           /\ IsWaitFor(result, sockFd, "writable")

C2_Witness ==
    /\ CalledConnect /\ ops[1].status.tag = "Done" /\ ops[2].ret >= 0
    /\ ops[2].fd = sockFd
    /\ state = "Connect"

\* C3: in SDPSearch, when the query yields Done(channel) and connect() on the
\* target socket fails with EINPROGRESS, advance() returns no error: the state
\* becomes Connect and the call returns a wait for writable on the target
\* socket's fd.
C3_InProgressYieldsWait ==
    (CalledConnect /\ ops[2].ret < 0 /\ ops[2].errno = EINPROGRESS)
        => /\ result.tag # "Err"
           /\ state = "Connect"
           /\ IsWaitFor(result, sockFd, "writable")

\* C4: in Connect, when getpeername() fails with ENOTCONN, advance() reads one
\* byte from the target socket, and when that read fails the call returns
\* Errno with the errno of the read; the state does not become Done.
C4_ProbeErrnoReported ==
    (CalledGetpeername /\ ops[1].ret < 0 /\ ops[1].errno = ENOTCONN)
        => /\ CalledRead
           /\ ops[1].fd = sockFd /\ ops[2].fd = sockFd /\ ops[2].len = 1
           /\ state = "Connect"
           /\ ops[2].ret < 0
                => IsErrno(result, ops[2].errno,
                           "Failed to connect() to target device")

C4_Witness ==
    /\ CalledGetpeername /\ ops[1].errno = ENOTCONN /\ ops[1].ret < 0
    /\ CalledRead /\ ops[2].ret < 0 /\ ops[2].errno # ENOTCONN
    /\ result.tag = "Err" /\ result.code = ops[2].errno

\* C5: in state Done every advance() panics, makes no call on a socket and
\* leaves the state, pollfd, the query and the target socket as they were.
C5_DoneAdvancePanics ==
    [][state = "Done"
          => /\ state' = "Done" /\ pollfd' = pollfd /\ sockFd' = sockFd
             /\ addr' = addr /\ query' = query /\ errno' = errno
             /\ \/ result' = result /\ ops' = ops        \* a step of the kernel
                \/ result' = Panic /\ ops' = <<>> /\ sock' = sock]_vars

C5_Witness == state = "Done" /\ result = Panic /\ ops = <<>>

Rank == [SDPSearch |-> 1, Connect |-> 2, Done |-> 3]

\* C6: the state starts as SDPSearch and every step keeps it or moves it one
\* place forward along SDPSearch, Connect, Done: never back from Connect to
\* SDPSearch, never out of Done.
C6_PhaseForward ==
    /\ state = "SDPSearch"
    /\ [][Rank[state] <= Rank[state'] /\ Rank[state'] <= Rank[state] + 1]_vars

C6_Witness == state = "Done" /\ result = Done /\ query.state = "Done"

\* C7: a call that returns Done has just seen getpeername() succeed on the
\* target socket, and the target socket is connected at that moment.
C7_DoneMeansConnected ==
    [][(result'.tag = "Done" /\ result.tag # "Done")
          => /\ sock' = "connected"
             /\ state = "Connect" /\ state' = "Done"
             /\ Len(ops') = 1 /\ ops'[1].op = "getpeername"
             /\ ops'[1].ret = 0 /\ ops'[1].fd = sockFd]_vars

C7_Witness == result = Done /\ sock = "connected" /\ CalledGetpeername

\* C8: in SDPSearch, when connect() on the target socket fails with an errno
\* other than EINPROGRESS, advance() returns Errno with that errno and the
\* state stays SDPSearch.
C8_ConnectFailureReported ==
    (CalledConnect /\ ops[2].ret < 0 /\ ops[2].errno # EINPROGRESS)
        => /\ IsErrno(result, ops[2].errno,
                      "Failed to connect() to target device")
           /\ state = "SDPSearch"

C8_Witness ==
    /\ CalledConnect /\ ops[2].ret < 0 /\ ops[2].errno \in ConnectErrnos
    /\ result.tag = "Err" /\ sock = "open"

\* C9: in Connect, when getpeername() fails with an errno other than ENOTCONN,
\* advance() returns Errno with that errno and makes no other call: no probe
\* read and no second getpeername().
C9_PeerNameErrorAsIs ==
    (CalledGetpeername /\ ops[1].ret < 0 /\ ops[1].errno # ENOTCONN)
        => /\ Len(ops) = 1
           /\ IsErrno(result, ops[1].errno, "getpeername() failed")
           /\ state = "Connect"

C9_Witness ==
    /\ CalledGetpeername /\ ops[1].ret < 0 /\ ops[1].errno \in PeerNameErrnos
    /\ result.tag = "Err" /\ Len(ops) = 1

\* C10: in SDPSearch, WaitReadable(fd) of the query becomes a wait for
\* readable on fd, WaitWritable(fd) a wait for writable on fd, both with the
\* state still SDPSearch and no call on the target socket, and an error of
\* the query is the error advance() returns.
C10_WaitForwarded ==
    CalledQuery =>
        LET st == ops[1].status IN
        /\ st.tag = "WaitReadable"
             => /\ IsWaitFor(result, st.fd, "readable") /\ pollfd = st.fd
                /\ state = "SDPSearch" /\ Len(ops) = 1
        /\ st.tag = "WaitWritable"
             => /\ IsWaitFor(result, st.fd, "writable") /\ pollfd = st.fd
                /\ state = "SDPSearch" /\ Len(ops) = 1
        /\ st.tag = "Err"
             => /\ result = st.err
                /\ state = "SDPSearch" /\ Len(ops) = 1

C10_Witness ==
    /\ CalledQuery /\ ops[1].status.tag = "WaitReadable"
    /\ ops[1].status.fd = query.fd /\ query.fd # sockFd
    /\ result.tag = "WaitFor" /\ result.interest = "readable"

\* C11: every advance() returns at most one wait directive, and it names
\* exactly one fd, the one the mio::Evented impl registers (pollfd): the
\* control-socket fd of the SDP query while the state is SDPSearch, the fd of
\* the target socket once the state is Connect; never another fd.
C11_OneWaitOneFd ==
    result.tag = "WaitFor" =>
        /\ result = WaitFor(pollfd, result.interest)
        /\ pollfd \in {query.fd, sockFd}
        /\ state \in {"SDPSearch", "Connect"}
        /\ state = "SDPSearch" => pollfd = query.fd
        /\ state = "Connect" => pollfd = sockFd

C11_Witness ==
    /\ state = "SDPSearch"
    /\ result = WaitFor(query.fd, "readable")
    /\ pollfd = query.fd
    /\ query.round = 2


\* C13: the sockaddr_rc handed to connect() on the target socket holds the
\* caller's address converted exactly once (reversed on a little-endian
\* build, unchanged on a big-endian build) and the channel number the SDP
\* query returned in the same advance().
C13_SockaddrWireOrder ==
    CalledConnect =>
        /\ CalledQuery /\ ops[1].status.tag = "Done"
        /\ ops[2].fd = sockFd
        /\ ops[2].full_address.rc_channel = ops[1].status.channel
        /\ endian = "little" =>
              \A i \in 1..6 : ops[2].full_address.rc_bdaddr[i] = target[7 - i]
        /\ endian = "big" => ops[2].full_address.rc_bdaddr = target

C13_Witness ==
    /\ CalledConnect
    /\ endian = "little"
    /\ target = <<0, 22, 4, 1, 33, 192>>
    /\ ops[2].full_address.rc_bdaddr = <<192, 33, 1, 4, 22, 0>>
    /\ ops[2].full_address.rc_channel = 2


\* C12: there is no automatic retry.  An advance() that returns an error
\* has attempted no operation twice, the blocking connect() returns that
\* error at once, and after it neither the driver nor the state machine
\* attempts anything: no further advance(), query round or syscall.
C12_NoRetry ==
    [][/\ result'.tag = "Err" =>
            /\ pc' = "returned" /\ drvRet' = result'
            /\ \A i, j \in 1..Len(ops') : ops'[i].op = ops'[j].op => i = j
       /\ result.tag = "Err" =>
            /\ ~Advance
            /\ UNCHANGED <<state, pollfd, query, errno, result, ops,
                           pc, registered, drvRet>>]_vars

C12_Witness ==
    /\ pc = "returned" /\ drvRet.tag = "Err" /\ drvRet = result
    /\ state = "Connect" /\ CalledGetpeername /\ CalledRead


---------------------------------------------------------------------------
(* Properties of BtAddr *)

\* C14: convert_host_byteorder is its own inverse: converting twice gives
\* the address back.  On a little-endian build one conversion reverses the
\* six bytes (what the swaps (0,5), (1,4), (2,3) amount to), on a big-endian
\* build it changes nothing.
C14_ConvertInvolution ==
    call.fn = "convert_host_byteorder" =>
        /\ endian = "little" => \A i \in 1..6 : call.out[i] = call.arg[7 - i]
        /\ endian = "big" => call.out = call.arg
        /\ call.prev.fn = "convert_host_byteorder" => call.out = call.prev.arg

C14_Witness ==
    /\ endian = "little"
    /\ call.fn = "convert_host_byteorder"
    /\ call.prev.fn = "convert_host_byteorder"
    /\ call.prev.arg = <<0, 22, 4, 1, 33, 192>>
    /\ call.arg = <<192, 33, 1, 4, 22, 0>>
    /\ call.out = <<0, 22, 4, 1, 33, 192>>

\* C15: from_str(to_string(a)) is Ok(a) for every address a, so formatting
\* that again gives to_string(a); and for every text s that from_str
\* accepts, to_string of the result equals s up to ASCII case.
C15_RoundTrip ==
    /\ (call.fn = "from_str" /\ call.prev.fn = "to_string")
          => call.out = FromStrOk(call.prev.arg)
    /\ (call.fn = "to_string" /\ call.prev.fn = "from_str")
          => /\ eq_ignore_ascii_case(call.out, call.prev.arg)
             /\ call.prev.prev.fn = "to_string" => call.out = call.prev.arg

C15_Witness ==
    /\ call.fn = "to_string" /\ call.prev.fn = "from_str"
    /\ call.prev.arg = TextLowerCase
    /\ call.out # TextLowerCase
    /\ eq_ignore_ascii_case(call.out, TextLowerCase)

\* the digits 0-9, a-f, A-F
IsHexDigit(b) == b \in (48..57) \cup (65..70) \cup (97..102)

\* six pieces of exactly two hex digits, separated by colons
SixHexPairs(s) ==
    /\ Len(s) = 17
    /\ \A k \in 1..17 : IF k % 3 = 0 THEN s[k] = Colon ELSE IsHexDigit(s[k])

\* C16: from_str accepts a text if and only if it is six colon-separated
\* pieces of exactly two hex digits each, in either case.  Every other text
\* gives Err(()): no address comes back, and nothing panics.
C16_ParseAcceptsIff ==
    call.fn = "from_str" =>
        IF SixHexPairs(call.arg)
        THEN call.out.tag = "Ok"
        ELSE call.out = FromStrErr

C16_Witness ==
    /\ call.fn = "from_str"
    /\ call.arg =
        <<48, 48, 58, 48, 48, 58, 48, 48, 58, 48, 48, 58, 48, 48, 58, 43,
          49>>
    /\ call.out = FromStrErr

\* the upper-case hex digits in order of their value
UpperHexDigits ==
    <<48, 49, 50, 51, 52, 53, 54, 55, 56, 57, 65, 66, 67, 68, 69, 70>>

\* C17: to_string always gives the canonical form: six pieces of two
\* upper-case, zero-padded hex digits, separated by colons, in the order of
\* the bytes; any() gives 00:00:00:00:00:00 and [1, 2, 3, 4, 5, 6] gives
\* 01:02:03:04:05:06.
C17_FormatCanonical ==
    call.fn = "to_string" =>
        /\ Len(call.out) = 17
        /\ \A g \in 1..6 :
              /\ call.out[3 * g - 2] = UpperHexDigits[(call.arg[g] \div 16) + 1]
              /\ call.out[3 * g - 1] = UpperHexDigits[(call.arg[g] % 16) + 1]
        /\ \A g \in 1..5 : call.out[3 * g] = Colon
        /\ call.arg = any => call.out = TextAny
        /\ call.arg = <<1, 2, 3, 4, 5, 6>> => call.out = Text123456

C17_Witness ==
    /\ call.fn = "to_string"
    /\ call.arg = <<0, 22, 4, 1, 33, 192>>
    /\ call.out =
        <<48, 48, 58, 49, 54, 58, 48, 52, 58, 48, 49, 58, 50, 49, 58, 67,
          48>>


---------------------------------------------------------------------------
(* Properties of scan_devices *)

\* whole seconds above the 32-bit unsigned range: a limb above the low two
\* is not zero
ExceedsU32(secs) == secs[1] # 0 \/ secs[2] # 0

CalledInquiry == \E k \in 1..Len(call.ops) : call.ops[k].op = "hci_inquiry"

\* C18: scan_devices answers every timeout whose whole seconds exceed the
\* 32-bit unsigned range with a Desc error, not an Errno, and without
\* issuing the inquiry; a timeout within the range is never answered with
\* Desc.
C18_OverRangeIsDesc ==
    call.fn = "scan_devices" =>
        IF ExceedsU32(call.arg.secs)
        THEN call.out.tag = "Err" /\ call.out.kind = "Desc" /\ ~CalledInquiry
        ELSE ~(call.out.tag = "Err" /\ call.out.kind = "Desc")


---------------------------------------------------------------------------
(* Properties of the SDP query *)

\* C19: when the responder answers in two fragments, the query sends exactly
\* one follow-up request, which carries the continuation state of the first
\* response; the payload is that of both fragments in order; and Done(channel)
\* comes, with the channel of that payload, only once a response with an
\* empty continuation state was parsed.
C19_TwoFragments ==
    qstatus.tag = "Done" =>
        LET n == Len(query.resps) IN
        /\ n >= 1
        /\ query.resps[n].cont = 0
        /\ \A k \in 1..(n - 1) : query.resps[k].cont # 0
        /\ query.payload = <<0, qstatus.channel>>
        /\ n = 2 =>
              /\ query.reqs = <<0, query.resps[1].cont>>
              /\ query.payload = query.resps[1].data \o query.resps[2].data

C19_Witness ==
    /\ qstatus = QDone(2)
    /\ query.resps = <<[cont |-> 1, data |-> <<0>>], [cont |-> 0, data |-> <<2>>]>>
    /\ query.reqs = <<0, 1>>

\* C20: in AwaitWritable a partial write leaves the state AwaitWritable with
\* the offset advanced by the bytes written, a write that would block gives
\* WaitWritable(fd), and the state is AwaitReadable only when the whole
\* request was sent; the bytes handed to the socket are the bytes of the
\* request in order, none twice and none left out.
C20_RequestSentOnce ==
    /\ query.state = "AwaitWritable" =>
          /\ query.sent \in 0..(ReqLen - 1)
          /\ query.wire = [i \in 1..query.sent |-> i]
          /\ qstatus = WaitWritable(query.fd)
    /\ query.state \in {"AwaitReadable", "Parsing", "Done"} =>
          /\ query.sent = ReqLen
          /\ query.wire = [i \in 1..ReqLen |-> i]

C20_Witness ==
    /\ query.state = "AwaitWritable"
    /\ query.round = 2
    /\ query.sent = 1
    /\ query.wire = <<1>>
    /\ qstatus = WaitWritable(query.fd)


---------------------------------------------------------------------------
(* Further properties of BtSocketConnect *)

\* C26: an advance() that returns an error leaves the state as it was before
\* the call (SDPSearch after a query error or a connect() failure, Connect
\* after a failure in Connect); the state changes only in calls that return
\* a wait directive or Done.
C26_ErrorKeepsPhase ==
    [][Advance =>
          /\ result'.tag = "Err" => state' = state
          /\ state' # state => result'.tag \in {"WaitFor", "Done"}]_vars

C26_Witness ==
    /\ state = "Connect"
    /\ result.tag = "Err" /\ result.msg = "getpeername() failed"
    /\ CalledGetpeername /\ Len(ops) = 1

\* C28: in every state of a BtSocketConnect, the one before the first
\* advance() included, pollfd is the fd of the SDP control socket or the fd
\* of the target socket.
C28_PollfdOwned == pollfd \in {query.fd, sockFd}

\* C29: in state Connect, when getpeername() succeeds, advance() returns Done
\* and the state is Done after that same call; no probe read is made.
C29_PeerNameSuccessIsDone ==
    (CalledGetpeername /\ ops[1].ret >= 0) =>
        /\ result = Done
        /\ state = "Done"
        /\ Len(ops) = 1

C29_Witness ==
    /\ CalledGetpeername /\ ops[1].ret = 0 /\ ops[1].fd = sockFd
    /\ result = Done /\ state = "Done" /\ sock = "connected"


---------------------------------------------------------------------------
(* Properties of the blocking BtSocket::connect *)

\* C22: the driver treats every wait directive as a oneshot: the fd is
\* registered, waited on and deregistered before advance() is called again,
\* register is never called on an fd that is still registered, and at most
\* one fd is registered with the Poll at any time.
C22_OneshotWait ==
    [][/\ Cardinality(registered') <= 1
       /\ pc' = "poll" => registered' = {pollfd'} /\ result'.tag = "WaitFor"
       /\ pc' \in {"advance", "register", "returned"} => registered' = {}
       /\ pc' = "panicked" => result' = Panic /\ registered' = {}
       /\ (pc = "register" /\ pc' # pc)
             => pollfd \notin registered /\ pc' = "poll"
       /\ (pc' = "advance" /\ pc # pc')
             => /\ pc = "poll" /\ registered = {pollfd} /\ Ready(pollfd)
                /\ result.tag = "WaitFor"]_vars

C22_Witness ==
    /\ pc = "advance" /\ registered = {}
    /\ state = "Connect" /\ result = WaitFor(sockFd, "writable")
    /\ sock = "connected"

\* C24: the blocking connect() returns Ok only after an advance() returned
\* Done, never calls advance() after Done, and the BtSocketConnect it returns
\* is in state Done.
C24_OkOnlyAfterDone ==
    [][/\ drvRet' = Ok =>
            /\ pc' = "returned"
            /\ result' = Done
            /\ state' = "Done"
       /\ result = Done =>
            /\ ~Advance
            /\ UNCHANGED <<state, result, ops, pc, drvRet>>
       /\ (result' = Done /\ result # Done) => drvRet' = Ok]_vars

C24_Witness ==
    /\ pc = "returned" /\ drvRet = Ok
    /\ state = "Done" /\ result = Done
    /\ CalledGetpeername /\ ops[1].ret = 0


\* C25: if every event the driver waits for is delivered and the SDP query
\* comes to Done(channel) or to an error after finitely many rounds, the
\* blocking connect() eventually returns, Ok after Done or the first error.
C25_EventuallyReturns == <>(pc = "returned")



---------------------------------------------------------------------------
(* Properties of ownership *)

Count(seq, x) == Len(SelectSeq(seq, LAMBDA y : y = x))

UsesFd(fd) == \E i \in 1..Len(handles) : handles[i].fd = fd

\* C21: once the BtSocketConnect has been dropped, in whichever phase, its
\* control socket has been closed, exactly once, and nothing else has: the
\* target socket was never closed and the BtSocket still owns it
C21_DropClosesControlOnly ==
    ~Owns("QueryRFCOMMChannel")
        => /\ closedFds = <<query.fd>>
           /\ Count(closedFds, sockFd) = 0
           /\ handles = SocketNew(sockFd)

C21_Witness ==
    /\ ~Owns("QueryRFCOMMChannel")
    /\ state = "Connect" /\ result = WaitFor(sockFd, "writable")
    /\ closedFds = <<query.fd>>

\* C27: the fd of the BtSocket is closed at most once, and never while the
\* BtSocket or a stream obtained from it is still alive
C27_ClosedOnce ==
    /\ Count(closedFds, sockFd) <= 1
    /\ Count(closedFds, sockFd) > 0 => ~UsesFd(sockFd)


\* C23: the address scan_devices returns for a device is the inquiry's raw
\* bytes r converted from wire order (reversed on a little-endian build,
\* unchanged on a big-endian one), and a connect() to that returned address
\* puts exactly r into the sockaddr_rc of the connect() call
C23_ScanConnectRoundTrip ==
    call.fn = "connect" =>
        /\ endian = "little" => \A i \in 1..6 : call.arg[i] = call.raw[7 - i]
        /\ endian = "big" => call.arg = call.raw
        /\ target = call.arg
        /\ CalledConnect => ops[2].full_address.rc_bdaddr = call.raw

C23_Witness ==
    /\ call.fn = "connect"
    /\ endian = "little"
    /\ call.raw = <<192, 33, 1, 4, 22, 0>>
    /\ call.arg = <<0, 22, 4, 1, 33, 192>>
    /\ CalledConnect
    /\ ops[2].full_address.rc_bdaddr = <<192, 33, 1, 4, 22, 0>>

====
